---- MODULE Spec2Model ----
(***************************************************************************)
(* Cloudflare Email -> Notion Inbox worker (src/src/index.ts, the current  *)
(* version of the worker, lines 245-840).                                  *)
(*                                                                         *)
(* A JavaScript string is a sequence of one-character strings.  An         *)
(* optional value (undefined/null or a string) is a record                 *)
(* [def |-> BOOLEAN, val |-> string].  The en dash and the em dash are the *)
(* characters written "u2013" and "u2014".                                 *)
(***************************************************************************)
EXTENDS Integers, Sequences, FiniteSets, TLC

VARIABLES
    env,      \* the worker's configuration (Env)
    clock,    \* the wall clock read by new Date(), in days
    pc,       \* "idle" | "parsed" (message read, logEventShape awaited) |
              \* "awaiting" (create-call in flight) | "done"
    inv,      \* the invocation being handled: its kind and its input
    calls,    \* the create-calls sent by this invocation, in order
    log,      \* the log entries written by this invocation, in order
    outcome,  \* how the invocation ended
    sent,     \* the Fingerprint value that the earlier delivery of the
              \* message being handled sent in its create-call, if any
    probe     \* the last application of an exported pure function

vars == <<env, clock, pc, inv, calls, log, outcome, sent, probe>>

----------------------------------------------------------------------------
(* Bounds of the model *)

\* Subjects are built from at most this many pieces.
MaxSubjectPieces == 4
\* HTML bodies are built from at most this many pieces.
MaxHtmlPieces == 3
\* The clock stops advancing at this day.
MaxClock == 1
\* The texts given to splitIntoChunks are built from at most this many pieces.
MaxTextPieces == 4
\* The limits given to splitIntoChunks are at most this.
MaxChunkLimit == 3

(* Program constants *)

RAW_PREVIEW_LIMIT == 1800
CHILD_BLOCK_LIMIT == 1500
TITLE_LIMIT == 200
\* receivedAt.slice(0, 10)
DATE_PREFIX_LEN == 10

----------------------------------------------------------------------------
(* Strings *)

Undefined == [def |-> FALSE, val |-> <<>>]
Def(s) == [def |-> TRUE, val |-> s]

\* !x for an optional string: undefined, null and "" are falsy.
Falsy(x) == ~x.def \/ x.val = <<>>

\* x ?? d for an optional string x and a string d.
OrElse(x, d) == IF x.def THEN x.val ELSE d

Min(a, b) == IF a < b THEN a ELSE b
Greatest(S) == CHOOSE x \in S : \A y \in S : y <= x
Least(S) == CHOOSE x \in S : \A y \in S : x <= y

\* What String.prototype.trim and the regex class \s remove, among the
\* characters the model uses.
IsWs(c) == c \in {" ", "\n", "\t", "\r"}

UpperAlpha == <<"A", "B", "C", "D", "E", "F", "G", "H", "I", "J", "K", "L", "M",
                "N", "O", "P", "Q", "R", "S", "T", "U", "V", "W", "X", "Y", "Z">>
LowerAlpha == <<"a", "b", "c", "d", "e", "f", "g", "h", "i", "j", "k", "l", "m",
                "n", "o", "p", "q", "r", "s", "t", "u", "v", "w", "x", "y", "z">>
Digits == <<"0", "1", "2", "3", "4", "5", "6", "7", "8", "9">>

ToLowerChar(c) ==
    IF \E i \in 1..Len(UpperAlpha) : UpperAlpha[i] = c
    THEN LowerAlpha[CHOOSE i \in 1..Len(UpperAlpha) : UpperAlpha[i] = c]
    ELSE c

toLowerCase(s) == [i \in 1..Len(s) |-> ToLowerChar(s[i])]

\* s.slice(a, b) for 0 <= a and 0 <= b.
Slice(s, a, b) == SubSeq(s, a + 1, Min(b, Len(s)))

\* s without its leading whitespace: s from its first character that is
\* not whitespace on.
TrimStart(s) ==
    IF \A i \in 1..Len(s) : IsWs(s[i]) THEN <<>>
    ELSE SubSeq(s, CHOOSE i \in 1..Len(s) :
                       ~IsWs(s[i]) /\ \A k \in 1..(i - 1) : IsWs(s[k]),
                Len(s))

\* s without its trailing whitespace: s up to its last character that is
\* not whitespace.
TrimEnd(s) ==
    IF \A i \in 1..Len(s) : IsWs(s[i]) THEN <<>>
    ELSE SubSeq(s, 1, CHOOSE i \in 1..Len(s) :
                          ~IsWs(s[i]) /\ \A k \in (i + 1)..Len(s) : IsWs(s[k]))

\* s.trim()
Trim(s) == TrimEnd(TrimStart(s))

\* The first index >= i of s that holds no whitespace (Len(s) + 1 if none): \s*
RECURSIVE SkipWs(_, _)
SkipWs(s, i) ==
    IF i <= Len(s) /\ IsWs(s[i]) THEN SkipWs(s, i + 1) ELSE i

\* The literal w (lower case) at index i of s, letter case ignored.
LitAt(s, i, w) ==
    /\ i >= 1
    /\ i + Len(w) - 1 <= Len(s)
    /\ \A k \in 1..Len(w) : ToLowerChar(s[i + k - 1]) = w[k]

\* The decimal digits of n >= 0.
RECURSIVE DecStr(_)
DecStr(n) ==
    IF n < 10 THEN <<Digits[n + 1]>>
    ELSE DecStr(n \div 10) \o <<Digits[(n % 10) + 1]>>

\* Every concatenation of at most n of the given pieces.
RECURSIVE Built(_, _)
Built(pieces, n) ==
    IF n = 0 THEN {<<>>}
    ELSE LET shorter == Built(pieces, n - 1)
         IN shorter \cup {p \o s : p \in pieces, s \in shorter}

----------------------------------------------------------------------------
(* Title Builder *)

Inbox == <<"i", "n", "b", "o", "x">>

\* /inbox/i.test(subject): the subject gate of the earlier version of email
\* (lines 31-42); the current version of the worker has no such test.
HasMarker(subject) == \E i \in 1..Len(subject) : LitAt(subject, i, Inbox)

IsTitleSep(c) == c \in {":", "-", "u2013", "u2014"}

RECURSIVE SkipSep(_, _)
SkipSep(s, i) ==
    IF i <= Len(s) /\ IsTitleSep(s[i]) THEN SkipSep(s, i + 1) ELSE i

\* \s*[:\-u2013u2014]*\s* from index i on: the index after it.
AfterMarker(s, i) == SkipWs(s, SkipSep(s, SkipWs(s, i)))

\* /^\s*(?:\[\s*inbox\s*\]|inbox)\s*[:\-u2013u2014]*\s*/i on s: the index
\* after the match, 0 when the pattern does not match.
MarkerPrefixEnd(s) ==
    LET i1 == SkipWs(s, 1)
    IN IF i1 <= Len(s) /\ s[i1] = "["
       THEN LET i2 == SkipWs(s, i1 + 1)
            IN IF LitAt(s, i2, Inbox)
               THEN LET i3 == SkipWs(s, i2 + Len(Inbox))
                    IN IF i3 <= Len(s) /\ s[i3] = "]"
                       THEN AfterMarker(s, i3 + 1)
                       ELSE 0
               ELSE 0
       ELSE IF LitAt(s, i1, Inbox)
            THEN AfterMarker(s, i1 + Len(Inbox))
            ELSE 0

\* normalizeTitle with the pattern anchored on the marker itself, without
\* the leading \s* of the source's pattern.
normalizeTitleAnchored(subject) ==
    LET e == IF subject # <<>> /\ ~IsWs(subject[1])
             THEN MarkerPrefixEnd(subject) ELSE 0
        replaced == IF e = 0 THEN subject
                    ELSE SubSeq(subject, e, Len(subject))
    IN Trim(replaced)

normalizeTitle(subject) ==
    LET e == MarkerPrefixEnd(subject)
        replaced == IF e = 0 THEN subject
                    ELSE SubSeq(subject, e, Len(subject))
    IN Trim(replaced)

InboxEmail == <<"I", "n", "b", "o", "x", " ", "e", "m", "a", "i", "l", " ">>

\* buildTitle without the placeholder: the normalized subject as it is.
buildTitleUnguarded(subject, receivedAt) == normalizeTitle(subject)

buildTitle(subject, receivedAt) ==
    LET normalized == normalizeTitle(subject)
    IN IF Len(normalized) # 0 THEN normalized
       ELSE InboxEmail \o Slice(receivedAt, 0, DATE_PREFIX_LEN)

truncateText(value, limit) ==
    IF value = <<>> THEN <<>>
    ELSE IF Len(value) > limit THEN Slice(value, 0, limit) ELSE value

\* truncateText(buildTitle(subject, receivedAt), TITLE_LIMIT): the Title field
titleField(subject, receivedAt) ==
    truncateText(buildTitle(subject, receivedAt), TITLE_LIMIT)

----------------------------------------------------------------------------
(* Text Normalizer *)

\* The index of the first ">" of s at or after i (Len(s) + 1 if none).
RECURSIVE NextGt(_, _)
NextGt(s, i) ==
    IF i <= Len(s) /\ s[i] # ">" THEN NextGt(s, i + 1) ELSE i

\* <\s*\/NAME\s*> at index i of s: the index after the match, 0 if none.
CloseTagAt(s, i, name) ==
    IF i <= Len(s) /\ s[i] = "<"
    THEN LET j == SkipWs(s, i + 1)
         IN IF j <= Len(s) /\ s[j] = "/" /\ LitAt(s, j + 1, name)
            THEN LET k == SkipWs(s, j + 1 + Len(name))
                 IN IF k <= Len(s) /\ s[k] = ">" THEN k + 1 ELSE 0
            ELSE 0
    ELSE 0

\* <\s*br\s*\/?\s*> at index i of s: the index after the match, 0 if none.
BrAt(s, i) ==
    IF i <= Len(s) /\ s[i] = "<"
    THEN LET j == SkipWs(s, i + 1)
         IN IF LitAt(s, j, <<"b", "r">>)
            THEN LET k  == SkipWs(s, j + 2)
                     k2 == IF k <= Len(s) /\ s[k] = "/" THEN k + 1 ELSE k
                     k3 == SkipWs(s, k2)
                 IN IF k3 <= Len(s) /\ s[k3] = ">" THEN k3 + 1 ELSE 0
            ELSE 0
    ELSE 0

\* <[^>]+> at index i of s: the index after the match, 0 if none.
AnyTagAt(s, i) ==
    IF i <= Len(s) /\ s[i] = "<"
    THEN LET g == NextGt(s, i + 1)
         IN IF g <= Len(s) /\ g >= i + 2 THEN g + 1 ELSE 0
    ELSE 0

Entities == [
    nbsp |-> <<"&", "n", "b", "s", "p", ";">>,
    lt   |-> <<"&", "l", "t", ";">>,
    gt   |-> <<"&", "g", "t", ";">>,
    amp  |-> <<"&", "a", "m", "p", ";">>,
    quot |-> <<"&", "q", "u", "o", "t", ";">>,
    apos |-> <<"&", "#", "3", "9", ";">>]

\* One of the patterns of htmlToText and decodeHtmlEntities at index i of s:
\* the index after the match, 0 when the pattern does not match there.
MatchAt(pattern, s, i) ==
    CASE pattern = "br"       -> BrAt(s, i)
      [] pattern = "closeP"   -> CloseTagAt(s, i, <<"p">>)
      [] pattern = "closeDiv" -> CloseTagAt(s, i, <<"d", "i", "v">>)
      [] pattern = "tag"      -> AnyTagAt(s, i)
      [] OTHER -> IF LitAt(s, i, Entities[pattern])
                  THEN i + Len(Entities[pattern]) ELSE 0

\* s.replace(/pattern/gi, rep) from index i on.
RECURSIVE ReplaceFrom(_, _, _, _)
ReplaceFrom(pattern, rep, s, i) ==
    IF i > Len(s) THEN <<>>
    ELSE LET e == MatchAt(pattern, s, i)
         IN IF e # 0 THEN rep \o ReplaceFrom(pattern, rep, s, e)
            ELSE <<s[i]>> \o ReplaceFrom(pattern, rep, s, i + 1)

ReplaceAll(pattern, rep, s) == ReplaceFrom(pattern, rep, s, 1)

decodeHtmlEntities(text) ==
    LET t1 == ReplaceAll("nbsp", <<" ">>, text)
        t2 == ReplaceAll("lt", <<"<">>, t1)
        t3 == ReplaceAll("gt", <<">">>, t2)
        t4 == ReplaceAll("amp", <<"&">>, t3)
        t5 == ReplaceAll("quot", <<"\"">>, t4)
    IN ReplaceAll("apos", <<"'">>, t5)

htmlToText(html) ==
    LET b1 == ReplaceAll("br", <<"\n">>, html)
        b2 == ReplaceAll("closeP", <<"\n">>, b1)
        withBreaks == ReplaceAll("closeDiv", <<"\n">>, b2)
        stripped == ReplaceAll("tag", <<>>, withBreaks)
    IN decodeHtmlEntities(stripped)

----------------------------------------------------------------------------
(* Body Resolver *)

\* x && x.trim().length for an optional string x
NonBlank(x) == ~Falsy(x) /\ Len(Trim(x.val)) # 0

\* resolveMailText returning what it selects as it is, without .trim().
resolveMailTextUntrimmed(text, html, rawFallback) ==
    IF NonBlank(text) THEN [text |-> text.val, source |-> "text"]
    ELSE IF NonBlank(html)
         THEN [text |-> htmlToText(html.val), source |-> "html"]
    ELSE IF NonBlank(rawFallback)
         THEN [text |-> rawFallback.val, source |-> "raw"]
    ELSE [text |-> <<>>, source |-> "empty"]

\* resolveMailText with the first two branches in the other order.
resolveMailTextHtmlFirst(text, html, rawFallback) ==
    IF NonBlank(html)
    THEN [text |-> Trim(htmlToText(html.val)), source |-> "html"]
    ELSE IF NonBlank(text)
         THEN [text |-> Trim(text.val), source |-> "text"]
    ELSE IF NonBlank(rawFallback)
         THEN [text |-> Trim(rawFallback.val), source |-> "raw"]
    ELSE [text |-> <<>>, source |-> "empty"]

resolveMailText(text, html, rawFallback) ==
    IF NonBlank(text) THEN [text |-> Trim(text.val), source |-> "text"]
    ELSE IF NonBlank(html)
         THEN [text |-> Trim(htmlToText(html.val)), source |-> "html"]
    ELSE IF NonBlank(rawFallback)
         THEN [text |-> Trim(rawFallback.val), source |-> "raw"]
    ELSE [text |-> <<>>, source |-> "empty"]

----------------------------------------------------------------------------
(* Dates *)

\* The last day of the month the clock runs in.
LastDay == 28

\* new Date(t).toISOString() for day t of the clock: 2024-02-<t+1>T00:00:00.000Z
toISOString(t) ==
    <<"2", "0", "2", "4", "-", "0", "2", "-">>
        \o <<Digits[((t + 1) \div 10) + 1], Digits[((t + 1) % 10) + 1]>>
        \o <<"T", "0", "0", ":", "0", "0", ":", "0", "0", ".", "0", "0", "0", "Z">>

NaN == -1

\* new Date(s) for a string s: the day it names, written as an ISO timestamp
\* or as a date alone (YYYY-MM-DD); NaN (Invalid Date) for any other string
\* of the model.
DateOf(s) ==
    LET days == {t \in 0..(LastDay - 1) :
                    \/ s = toISOString(t)
                    \/ s = Slice(toISOString(t), 0, DATE_PREFIX_LEN)}
    IN IF days = {} THEN NaN ELSE CHOOSE t \in days : TRUE

----------------------------------------------------------------------------
(* Fingerprint Builder *)

\* SHA-256 in lower-case hex, idealised as collision-free: the digest of a
\* string is one token that names the string.
sha256Hex(value) == <<ToString(<<"sha256", value>>)>>

\* `${value}` for an optional string that no ?? guards
Rendered(x) == IF x.def THEN x.val ELSE <<"n", "u", "l", "l">>

\* buildFingerprint without the `?? ""` of the sender: a null sender is
\* rendered by the template literal.
buildFingerprintRenderingNull(input) ==
    LET bodyHash == sha256Hex(OrElse(input.body, <<>>))
        material == Rendered(input.from) \o <<"|">>
                        \o OrElse(input.subject, <<>>)
                        \o <<"|">> \o input.date \o <<"|">> \o bodyHash
    IN sha256Hex(material)

\* input: [from, subject, body |-> optional strings, date |-> string]
buildFingerprint(input) ==
    LET bodyHash == sha256Hex(OrElse(input.body, <<>>))
        material == OrElse(input.from, <<>>) \o <<"|">>
                        \o OrElse(input.subject, <<>>)
                        \o <<"|">> \o input.date \o <<"|">> \o bodyHash
    IN sha256Hex(material)

----------------------------------------------------------------------------
(* Sender and allowlist *)

\* An address-like value (mail.from): undefined, a string, an object with
\* an optional address and an optional nested value, or an array.
FNone == [t |-> "none"]
FStr(s) == [t |-> "string", s |-> s]
FObj(address, value) == [t |-> "object", address |-> address, value |-> value]
FArr(items) == [t |-> "array", items |-> items]

\* !from for an address-like value
FromFalsy(from) == from.t = "none" \/ (from.t = "string" /\ from.s = <<>>)

IsWordCh(c) ==
    \/ \E i \in 1..Len(LowerAlpha) : c = LowerAlpha[i] \/ c = UpperAlpha[i]
    \/ \E i \in 1..Len(Digits) : c = Digits[i]
    \/ c = "_"

\* [\w.+-]
IsLocalCh(c) == IsWordCh(c) \/ c \in {".", "+", "-"}
\* [\w.-]
IsDomainCh(c) == IsWordCh(c) \/ c \in {".", "-"}

RECURSIVE LocalRunEnd(_, _)
LocalRunEnd(s, i) ==
    IF i <= Len(s) /\ IsLocalCh(s[i]) THEN LocalRunEnd(s, i + 1) ELSE i

RECURSIVE DomainRunEnd(_, _)
DomainRunEnd(s, i) ==
    IF i <= Len(s) /\ IsDomainCh(s[i]) THEN DomainRunEnd(s, i + 1) ELSE i

\* /[\w.+-]+@[\w.-]+/ matches s from index i.
EmailAt(s, i) ==
    /\ IsLocalCh(s[i])
    /\ LET e == LocalRunEnd(s, i)
       IN e < Len(s) /\ s[e] = "@" /\ IsDomainCh(s[e + 1])

extractEmailFromString(value) ==
    LET starts == {i \in 1..Len(value) : EmailAt(value, i)}
    IN IF starts = {} THEN Trim(value)
       ELSE LET i == Least(starts)
                e == LocalRunEnd(value, i)
            IN SubSeq(value, i, DomainRunEnd(value, e + 1) - 1)

\* The result is an optional string (null is Undefined).
RECURSIVE extractFromAddress(_)
extractFromAddress(from) ==
    IF FromFalsy(from) THEN Undefined
    ELSE IF from.t = "string" THEN Def(extractEmailFromString(from.s))
    ELSE IF from.t = "array"
         THEN IF from.items = <<>> THEN Undefined
              ELSE extractFromAddress(from.items[1])
    ELSE IF ~Falsy(from.address) THEN from.address
    ELSE IF ~FromFalsy(from.value) THEN extractFromAddress(from.value)
    ELSE Undefined

\* s.split(c) for a one-character separator c
RECURSIVE Split(_, _)
Split(s, c) ==
    IF \A i \in 1..Len(s) : s[i] # c THEN <<s>>
    ELSE LET i == CHOOSE j \in 1..Len(s) :
                     s[j] = c /\ \A k \in 1..(j - 1) : s[k] # c
         IN <<SubSeq(s, 1, i - 1)>> \o Split(SubSeq(s, i + 1, Len(s)), c)

\* The result is [def |-> FALSE] for null, else the set of the entries.
parseAllowlist(allowedFrom) ==
    IF Falsy(allowedFrom) THEN [def |-> FALSE, set |-> {}]
    ELSE LET parts == Split(allowedFrom.val, ",")
             entries == {toLowerCase(Trim(parts[i])) : i \in 1..Len(parts)}
                            \ {<<>>}
         IN IF entries = {} THEN [def |-> FALSE, set |-> {}]
            ELSE [def |-> TRUE, set |-> entries]

----------------------------------------------------------------------------
(* Chunker and content blocks *)

\* text.slice(i, i + limit) for i = from, from + limit, ... (from is 0-based)
RECURSIVE ChunksFrom(_, _, _)
ChunksFrom(text, limit, from) ==
    IF from >= Len(text) THEN <<>>
    ELSE <<Slice(text, from, from + limit)>>
             \o ChunksFrom(text, limit, from + limit)

\* splitIntoChunks with the loop test `i + limit <= text.length`: the
\* segments of full length only.
RECURSIVE FullChunksFrom(_, _, _)
FullChunksFrom(text, limit, from) ==
    IF from + limit > Len(text) THEN <<>>
    ELSE <<Slice(text, from, from + limit)>>
             \o FullChunksFrom(text, limit, from + limit)

splitIntoChunksFullOnly(text, limit) ==
    IF text = <<>> THEN <<>> ELSE FullChunksFrom(text, limit, 0)

splitIntoChunks(text, limit) ==
    IF text = <<>> THEN <<>> ELSE ChunksFrom(text, limit, 0)

RECURSIVE NonBlankOnly(_)
NonBlankOnly(chunks) ==
    IF chunks = <<>> THEN <<>>
    ELSE (IF Len(Trim(Head(chunks))) = 0 THEN <<>> ELSE <<Head(chunks)>>)
             \o NonBlankOnly(Tail(chunks))

FromLabel == <<"F", "r", "o", "m", ":", " ">>

\* buildChildrenBlocks without the test of `!chunk.trim().length`: every
\* chunk becomes a block.
buildChildrenBlocksKeepingBlank(text, fromAddress) ==
    (IF ~Falsy(fromAddress) THEN <<FromLabel \o fromAddress.val>> ELSE <<>>)
        \o splitIntoChunks(text, CHILD_BLOCK_LIMIT)

\* The text of each paragraph block, in order.
buildChildrenBlocks(text, fromAddress) ==
    (IF ~Falsy(fromAddress) THEN <<FromLabel \o fromAddress.val>> ELSE <<>>)
        \o NonBlankOnly(splitIntoChunks(text, CHILD_BLOCK_LIMIT))

----------------------------------------------------------------------------
(* Delivery Client: the classification of the response *)

\* A response body is text that JSON.parse rejects ([k |-> "text"]) or a
\* JSON value ([k |-> "json"]) with an optional string member "message".
TextBody == [k |-> "text", message |-> Undefined]
JsonBody(message) == [k |-> "json", message |-> message]

\* parsed?.message ?? "" for parsed = safeJsonParse(responseBody)
safeJsonParse(body) ==
    IF body.k = "text" THEN [def |-> FALSE, message |-> Undefined]
    ELSE [def |-> TRUE, message |-> body.message]

ParsedMessage(parsed) ==
    IF parsed.def THEN OrElse(parsed.message, <<>>) ELSE <<>>

\* [A-Za-z0-9 _-]
IsPropertyCh(c) == IsWordCh(c) \/ c \in {" ", "-"}

\* "?\s+does not exist from index t of m
MissingTailAt(m, t) ==
    LET t1 == IF t <= Len(m) /\ m[t] = "\"" THEN t + 1 ELSE t
        t2 == SkipWs(m, t1)
    IN t2 > t1 /\ LitAt(m, t2, <<"d", "o", "e", "s", " ", "n", "o", "t", " ",
                                 "e", "x", "i", "s", "t">>)

RECURSIVE PropertyRunEnd(_, _)
PropertyRunEnd(m, i) ==
    IF i <= Len(m) /\ IsPropertyCh(m[i]) THEN PropertyRunEnd(m, i + 1) ELSE i

\* The ends of the capture group ([A-Za-z0-9 _-]+) that starts at index g
\* and is followed by "?\s+does not exist
GroupEnds(m, g) ==
    {e \in g..(PropertyRunEnd(m, g) - 1) : MissingTailAt(m, e + 1)}

\* "? at index q: the index the capture group starts at
GroupStart(m, q) == IF q <= Len(m) /\ m[q] = "\"" THEN q + 1 ELSE q

\* \s+"?([A-Za-z0-9 _-]+)"?\s+does not exist from index p of m: the
\* indexes after \s+ from which the rest of the pattern matches
WsEnds(m, p) ==
    {q \in (p + 1)..SkipWs(m, p) : GroupEnds(m, GroupStart(m, q)) # {}}

\* The capture of the greedy match: the longest \s+, then the longest group.
GreedyGroup(m, p) ==
    LET g == GroupStart(m, Greatest(WsEnds(m, p)))
    IN SubSeq(m, g, Greatest(GroupEnds(m, g)))

\* property(?:\s+name)? at index i of m: the indexes after it, the one
\* that takes the optional group first.
AfterProperty(m, i) ==
    LET p0 == i + 8
        j  == SkipWs(m, p0)
    IN IF j > p0 /\ LitAt(m, j, <<"n", "a", "m", "e">>)
       THEN <<j + 4, p0>> ELSE <<p0>>

\* /property(?:\s+name)?\s+"?([A-Za-z0-9 _-]+)"?\s+does not exist/i
extractMissingProperty(message) ==
    LET Matches(i) ==
            /\ LitAt(message, i, <<"p", "r", "o", "p", "e", "r", "t", "y">>)
            /\ \E k \in 1..Len(AfterProperty(message, i)) :
                   WsEnds(message, AfterProperty(message, i)[k]) # {}
        starts == {i \in 1..Len(message) : Matches(i)}
    IN IF starts = {} THEN Undefined
       ELSE LET ps == AfterProperty(message, Least(starts))
                p  == IF WsEnds(message, ps[1]) # {} THEN ps[1] ELSE ps[2]
            IN Def(GreedyGroup(message, p))

MissingPrefix == <<"N", "o", "t", "i", "o", "n", " ", "p", "r", "o", "p", "e",
                   "r", "t", "y", " ", "m", "i", "s", "s", "i", "n", "g", ":",
                   " ">>
ApiErrorPrefix == <<"N", "o", "t", "i", "o", "n", " ", "A", "P", "I", " ",
                    "e", "r", "r", "o", "r", ":", " ">>

Error(message) == [name |-> "Error", message |-> message]
RangeError(message) == [name |-> "RangeError", message |-> message]

\* The error of the earlier version of handleNotionCreate: the status alone.
ResponseErrorStatusOnly(status, body) == Error(ApiErrorPrefix \o DecStr(status))

\* The error handleNotionCreate throws on a response that is not ok.
ResponseError(status, body) ==
    LET missingProperty ==
            extractMissingProperty(ParsedMessage(safeJsonParse(body)))
    IN IF ~Falsy(missingProperty)
       THEN Error(MissingPrefix \o missingProperty.val)
       ELSE Error(ApiErrorPrefix \o DecStr(status))

\* response.ok
ResponseOk(status) == status >= 200 /\ status <= 299

----------------------------------------------------------------------------
(* Configuration and the debug endpoint's credential *)

EnvNames == [
    NOTION_TOKEN |-> <<"N", "O", "T", "I", "O", "N", "_", "T", "O", "K", "E",
                       "N">>,
    INBOX_DB_ID |-> <<"I", "N", "B", "O", "X", "_", "D", "B", "_", "I", "D">>,
    WORKERS_BEARER_TOKEN |-> <<"W", "O", "R", "K", "E", "R", "S", "_", "B",
                               "E", "A", "R", "E", "R", "_", "T", "O", "K",
                               "E", "N">>]

\* missing.join(", ")
RECURSIVE Join(_)
Join(ss) ==
    IF ss = <<>> THEN <<>>
    ELSE IF Len(ss) = 1 THEN ss[1]
    ELSE ss[1] \o <<",", " ">> \o Join(Tail(ss))

MissingEnvPrefix == <<"M", "i", "s", "s", "i", "n", "g", " ", "r", "e", "q",
                      "u", "i", "r", "e", "d", " ", "e", "n", "v", " ", "v",
                      "a", "r", "s", ":", " ">>

\* The names validateEnv pushes on `missing`, in order.
MissingEnv(e) ==
    (IF Falsy(e.NOTION_TOKEN) THEN <<EnvNames.NOTION_TOKEN>> ELSE <<>>)
        \o (IF Falsy(e.INBOX_DB_ID) THEN <<EnvNames.INBOX_DB_ID>> ELSE <<>>)
        \o (IF Falsy(e.WORKERS_BEARER_TOKEN)
            THEN <<EnvNames.WORKERS_BEARER_TOKEN>> ELSE <<>>)

\* validateEnv throwing on the first name it finds missing.
validateEnvFirstMissing(e) ==
    LET missing == MissingEnv(e)
    IN IF Len(missing) # 0
       THEN [def |-> TRUE, error |-> Error(MissingEnvPrefix \o missing[1])]
       ELSE [def |-> FALSE, error |-> Error(<<>>)]

\* The error validateEnv throws: [def |-> FALSE] when it returns.
validateEnv(e) ==
    LET missing == MissingEnv(e)
    IN IF Len(missing) # 0
       THEN [def |-> TRUE, error |-> Error(MissingEnvPrefix \o Join(missing))]
       ELSE [def |-> FALSE, error |-> Error(<<>>)]

\* header: the Authorization header (optional); token: a string.
\* The result is the reason of the refusal, "ok" for null.
requireBearerAuth(header, token) ==
    IF token = <<>> THEN "missing_token"
    ELSE IF Falsy(header) THEN "missing_header"
    ELSE LET parts == Split(header.val, " ")
             scheme == parts[1]
             value == IF Len(parts) >= 2 THEN Def(parts[2]) ELSE Undefined
         IN IF scheme # <<"B", "e", "a", "r", "e", "r">> \/ value # Def(token)
            THEN "invalid_token"
            ELSE "ok"

----------------------------------------------------------------------------
(* Record Assembler: handleNotionCreate up to the create-call *)

NoChildren == [def |-> FALSE, val |-> <<>>]
NoRequest == [title |-> <<>>, created |-> <<>>, raw |-> <<>>,
              fingerprint |-> <<>>, children |-> NoChildren]

\* mail.date ? new Date(mail.date).toISOString() : createdAt
\* (toISOString throws a RangeError on an Invalid Date)
DateThrows(mail) == ~Falsy(mail.date) /\ DateOf(mail.date.val) = NaN
FingerprintDate(mail, createdAt) ==
    IF ~Falsy(mail.date) THEN toISOString(DateOf(mail.date.val))
    ELSE createdAt

\* extractFromAddress(mail.from) ?? input.messageFrom ?? null
ResolveSender(mail, messageFrom) ==
    LET a == extractFromAddress(mail.from)
    IN IF a.def THEN a ELSE messageFrom

\* The allowlist test without `!fromAddress ||`: a message whose sender is
\* unknown is let through.
AllowlistRejectsKnownOnly(allowlist, fromAddress) ==
    /\ allowlist.def
    /\ ~Falsy(fromAddress)
    /\ toLowerCase(fromAddress.val) \notin allowlist.set

\* allowlist && (!fromAddress || !allowlist.has(fromAddress.toLowerCase()))
AllowlistRejects(allowlist, fromAddress) ==
    /\ allowlist.def
    /\ \/ Falsy(fromAddress)
       \/ toLowerCase(fromAddress.val) \notin allowlist.set

\* What handleNotionCreate does before it awaits the create-call: it
\* returns ("skip"), throws ("throw") or sends the request ("request").
handleNotionCreate(e, mail, resolved, messageFrom, receivedAt, createdAt) ==
    LET subject     == OrElse(mail.subject, <<>>)
        fromAddress == ResolveSender(mail, messageFrom)
        allowlist   == parseAllowlist(e.ALLOWED_FROM)
        rawText     == resolved.text
    IN IF AllowlistRejects(allowlist, fromAddress)
       THEN [kind |-> "skip", error |-> Error(<<>>), req |-> NoRequest]
       ELSE IF DateThrows(mail)
       THEN [kind |-> "throw",
             error |-> RangeError(<<"I", "n", "v", "a", "l", "i", "d", " ",
                                    "t", "i", "m", "e", " ", "v", "a", "l",
                                    "u", "e">>),
             req |-> NoRequest]
       ELSE LET children == buildChildrenBlocks(rawText, fromAddress)
            IN [kind |-> "request", error |-> Error(<<>>),
                req |-> [title |-> titleField(subject, receivedAt),
                         created |-> createdAt,
                         raw |-> truncateText(rawText, RAW_PREVIEW_LIMIT),
                         fingerprint |-> buildFingerprint(
                             [from |-> fromAddress, subject |-> Def(subject),
                              date |-> FingerprintDate(mail, createdAt),
                              body |-> Def(rawText)]),
                         children |-> IF Len(children) # 0
                                      THEN [def |-> TRUE, val |-> children]
                                      ELSE NoChildren]]

----------------------------------------------------------------------------
(* The inputs of the handlers *)

Secret == <<"s", "3">>

ValidEnvs ==
    [NOTION_TOKEN : {Def(<<"t">>)}, INBOX_DB_ID : {Def(<<"d">>)},
     WORKERS_BEARER_TOKEN : {Def(Secret)},
     ALLOWED_FROM : {Undefined, Def(<<" ", ",", " ">>),
                     Def(<<"A", "@", "x", ",", " ", "b", "@", "x">>)}]

Envs ==
    ValidEnvs \cup
    [NOTION_TOKEN : {Undefined, Def(<<>>), Def(<<"t">>)},
     INBOX_DB_ID : {Undefined, Def(<<"d">>)},
     WORKERS_BEARER_TOKEN : {Undefined, Def(Secret)},
     ALLOWED_FROM : {Undefined}]

FromValues == {
    FNone,
    FStr(<<"N", " ", "<", "b", "@", "x", ">">>),
    FStr(<<" ">>),
    FObj(Def(<<"A", "@", "X">>), FNone),
    FArr(<<FObj(Undefined, FStr(<<"c", "@", "x">>))>>)}

EmptyMail == [subject |-> Undefined, text |-> Undefined, html |-> Undefined,
              from |-> FNone, date |-> Undefined]

Bodies == {
    [text |-> Def(<<" ", "a">>), html |-> Undefined, raw |-> Undefined],
    [text |-> Undefined, html |-> Def(<<"<", "p", ">", "a", "<", "/", "p", ">">>),
     raw |-> Def(<<"r">>)],
    [text |-> Def(<<" ">>), html |-> Undefined, raw |-> Undefined]}

Mail(subject, body, from, date) ==
    [subject |-> subject, text |-> body.text, html |-> body.html,
     from |-> from, date |-> date]

DateOnly == <<"2", "0", "2", "4", "-", "0", "2", "-", "0", "1">>
NotADate == <<"n", "o", "t", " ", "a", " ", "d", "a", "t", "e">>
MarkedSubject == <<"I", "n", "b", "o", "x", ":", " ", "a">>

\* c.repeat(n)
Repeat(c, n) == [i \in 1..n |-> c]

\* A subject longer than the Title field's limit, a body of two full blocks
\* (the second one blank) and a third, and a sender as long as a block.
LongSubject == Inbox \o Repeat("s", TITLE_LIMIT)
LongBody ==
    Repeat("a", CHILD_BLOCK_LIMIT) \o Repeat(" ", CHILD_BLOCK_LIMIT)
        \o Repeat("b", RAW_PREVIEW_LIMIT - CHILD_BLOCK_LIMIT)
LongSender == Repeat("f", CHILD_BLOCK_LIMIT - 2) \o <<"@", "x">>

LongMessages ==
    {[mail |-> Mail(Def(LongSubject),
                    [text |-> Def(LongBody), html |-> Undefined],
                    from, Undefined),
      raw |-> Undefined] :
        from \in {FObj(Def(<<"A", "@", "X">>), FNone),
                  FObj(Def(LongSender), FNone)}}

\* A message is its parsed fields and the text of its raw form: every
\* subject with one sender, date and body, every sender, date and body
\* with a subject that carries the marker, and the long messages.
Messages ==
    LongMessages \cup
    {[mail |-> Mail(subject, body, FObj(Def(<<"A", "@", "X">>), FNone),
                    Undefined),
      raw |-> body.raw] :
        subject \in {Undefined, Def(<<"a">>), Def(<<"i", "n", "b", "o", "x">>),
                     Def(<<" ", "[", "I", "N", "B", "O", "X", "]", " ", "-">>)},
        body \in {[text |-> Def(<<" ", "a">>), html |-> Undefined,
                   raw |-> Undefined]}}
    \cup
    {[mail |-> Mail(Def(MarkedSubject), body, from, date), raw |-> body.raw] :
        body \in Bodies, from \in FromValues,
        date \in {Undefined, Def(DateOnly), Def(NotADate)}}

EmailMessages ==
    {[mail |-> m.mail, rawFallback |-> OrElse(m.raw, <<>>), from |-> from] :
        m \in Messages, from \in {Undefined, Def(<<"b", "@", "x">>)}}

Authorizations == {
    Undefined,
    Def(<<"B", "e", "a", "r", "e", "r", " ", "s", "3">>),
    Def(<<"B", "e", "a", "r", "e", "r", " ", "s", "3", " ", "x">>),
    Def(<<"b", "e", "a", "r", "e", "r", " ", "s", "3">>),
    Def(<<"B", "e", "a", "r", "e", "r", " ", "z", "z">>),
    Def(<<"B", "e", "a", "r", "e", "r">>)}

ObjectPayloads ==
    {[k |-> "object", mail |-> m.mail, raw |-> m.raw] : m \in Messages}
OtherPayloads ==
    [k : {"invalid", "falsy", "scalar", "array"}, mail : {EmptyMail},
     raw : {Undefined}]
SamplePayload ==
    [k |-> "object",
     mail |-> Mail(Def(MarkedSubject), [text |-> Def(<<" ", "a">>),
                                        html |-> Undefined],
                   FObj(Def(<<"A", "@", "X">>), FNone), Undefined),
     raw |-> Undefined]

\* Every route and credential with a few payloads, and every payload on
\* the debug route with the credentials that name the secret.
Requests ==
    [method : {"POST", "GET"}, pathname : {"/debug/email", "/"},
     authorization : Authorizations,
     payload : OtherPayloads \cup {SamplePayload}]
    \cup
    [method : {"POST"}, pathname : {"/debug/email"},
     authorization : {Def(<<"B", "e", "a", "r", "e", "r", " ", "s", "3">>),
                      Def(<<"B", "e", "a", "r", "e", "r", " ", "s", "3", " ",
                            "x">>)},
     payload : ObjectPayloads]

PropertyQuoted ==
    <<"P", "r", "o", "p", "e", "r", "t", "y", " ", "\"", "R", "a", "w", "\"",
      " ", "d", "o", "e", "s", " ", "n", "o", "t", " ", "e", "x", "i", "s", "t">>
PropertyNamed ==
    <<"p", "r", "o", "p", "e", "r", "t", "y", " ", "n", "a", "m", "e", " ", "R",
      "a", "w", " ", " ", "d", "o", "e", "s", " ", "n", "o", "t", " ", "e", "x",
      "i", "s", "t", ".">>
NotAProperty ==
    <<"R", "a", "w", " ", "i", "s", " ", "n", "o", "t", " ", "a", " ", "p", "r",
      "o", "p", "e", "r", "t", "y", " ", "t", "h", "a", "t", " ", "e", "x", "i",
      "s", "t", "s", ".">>

ResponseBodies == {
    TextBody, JsonBody(Undefined), JsonBody(Def(PropertyQuoted)),
    JsonBody(Def(PropertyNamed)), JsonBody(Def(NotAProperty))}

\* The responses of the external API: a status and a body.
Responses ==
    [status : {200}, body : {TextBody, JsonBody(Undefined)}]
    \cup [status : {404, 500}, body : ResponseBodies]

\* fn applied to args gave out; it was the n-th application in a row, and
\* prev holds the arguments of the application before it.
NoProbe == [fn |-> "none", args |-> <<>>, out |-> <<>>, n |-> 0, prev |-> <<>>]

----------------------------------------------------------------------------
(* The handlers *)

Returned == [kind |-> "returned", status |-> 0, error |-> Error(<<>>)]
Responded(status) == [kind |-> "response", status |-> status,
                      error |-> Error(<<>>)]
Thrown(error) == [kind |-> "thrown", status |-> 0, error |-> error]
NoOutcome == [kind |-> "none", status |-> 0, error |-> Error(<<>>)]

NoHttp == [method |-> "", pathname |-> "", authorization |-> Undefined,
           payload |-> "none"]
NoResolved == [text |-> <<>>, source |-> "none"]
NoResponse == [status |-> 0, body |-> TextBody]
NoInvocation == [kind |-> "none", mail |-> EmptyMail, rawFallback |-> <<>>,
                 messageFrom |-> Undefined, http |-> NoHttp,
                 receivedAt |-> <<>>, resolved |-> NoResolved,
                 response |-> NoResponse]
NoEnv == [NOTION_TOKEN |-> Undefined, INBOX_DB_ID |-> Undefined,
          WORKERS_BEARER_TOKEN |-> Undefined, ALLOWED_FROM |-> Undefined]

handlerVars == <<env, clock, pc, inv, calls, log, outcome, sent>>

\* The invocation as it starts: its input and the time it reads first.
Started(kind, mail, rawFallback, messageFrom, http) ==
    [kind |-> kind, mail |-> mail, rawFallback |-> rawFallback,
     messageFrom |-> messageFrom, http |-> http,
     receivedAt |-> toISOString(clock), resolved |-> NoResolved,
     response |-> NoResponse]

\* The invocation ends without a create-call.
Ends(i, out, entries) ==
    /\ pc' = "done"
    /\ inv' = i
    /\ calls' = <<>>
    /\ log' = entries
    /\ outcome' = out
    /\ UNCHANGED <<env, clock, probe>>

\* The handler's own end once handleNotionCreate has returned.
Completed(kind) == IF kind = "fetch" THEN Responded(200) ELSE Returned

\* The handler has read and parsed its message and awaits logEventShape.
Parsed(i, received) ==
    /\ pc' = "parsed"
    /\ inv' = i
    /\ calls' = <<>>
    /\ log' = <<received, "email.event_shape">>
    /\ outcome' = NoOutcome
    /\ UNCHANGED <<env, clock, probe>>

\* A handler from resolveMailText on: the body is resolved and
\* handleNotionCreate runs up to the create-call, which it awaits.
Deliver ==
    /\ pc = "parsed"
    /\ UNCHANGED sent
    /\ \E createdAt \in clock..Min(clock + 1, MaxClock) :
        LET resolved == resolveMailText(inv.mail.text, inv.mail.html,
                                        Def(inv.rawFallback))
            r == handleNotionCreate(env, inv.mail, resolved, inv.messageFrom,
                                    inv.receivedAt, toISOString(createdAt))
            entries == log \o <<"email.body_selected">>
        IN /\ clock' = createdAt
           /\ inv' = [inv EXCEPT !.resolved = resolved]
           /\ IF r.kind = "skip"
              THEN /\ pc' = "done"
                   /\ calls' = <<>>
                   /\ log' = entries \o <<"email.skipped_allowlist">>
                   /\ outcome' = Completed(inv.kind)
              ELSE IF r.kind = "throw"
              THEN /\ pc' = "done"
                   /\ calls' = <<>>
                   /\ log' = entries
                   /\ outcome' = Thrown(r.error)
              ELSE /\ pc' = "awaiting"
                   /\ calls' = <<r.req>>
                   /\ log' = entries \o <<"notion.request">>
                   /\ outcome' = NoOutcome
           /\ UNCHANGED <<env, probe>>

\* email(message, env): message.raw as PostalMime parses it (mail) and as
\* decodeRawText decodes it (rawFallback), and the envelope sender.
Email ==
    /\ pc = "idle"
    /\ UNCHANGED sent
    /\ \E msg \in EmailMessages :
        LET i == Started("email", msg.mail, msg.rawFallback, msg.from, NoHttp)
            invalid == validateEnv(env)
        IN IF invalid.def
           THEN Ends(i, Thrown(invalid.error),
                     <<"email.received", "Missing required env vars">>)
           ELSE Parsed(i, "email.received")

\* The payload of a debug request as the handler reads it: the fields of
\* a JSON object, none for an array.
PayloadMail(payload) ==
    IF payload.k = "object" THEN payload.mail ELSE EmptyMail

\* typeof mail.raw === "string" ? mail.raw : ""
PayloadRaw(payload) ==
    IF payload.k = "object" THEN OrElse(payload.raw, <<>>) ELSE <<>>

\* !payload || typeof payload !== "object", for payload the parsed body or
\* null when request.json() rejects
InvalidPayload(payload) == payload.k \in {"invalid", "falsy", "scalar"}

\* fetch(request, env)
Fetch ==
    /\ pc = "idle"
    /\ UNCHANGED sent
    /\ \E request \in Requests :
        LET i == Started("fetch", PayloadMail(request.payload),
                         PayloadRaw(request.payload), Undefined,
                         [method |-> request.method,
                          pathname |-> request.pathname,
                          authorization |-> request.authorization,
                          payload |-> request.payload.k])
            invalid == validateEnv(env)
        IN IF invalid.def
           THEN Ends(i, Thrown(invalid.error),
                     <<"http.received", "Missing required env vars">>)
           ELSE IF request.method # "POST" \/ request.pathname # "/debug/email"
           THEN Ends(i, Responded(404), <<"http.received">>)
           ELSE IF requireBearerAuth(request.authorization,
                                     OrElse(env.WORKERS_BEARER_TOKEN, <<>>))
                       # "ok"
           THEN Ends(i, Responded(401), <<"http.received", "http.auth_failed">>)
           ELSE IF InvalidPayload(request.payload)
           THEN Ends(i, Responded(400),
                     <<"http.received", "http.invalid_payload">>)
           ELSE Parsed(i, "http.received")

\* The create-call's response arrives: handleNotionCreate from
\* `await response.text()` on, and the handler's return.
NotionResponds ==
    /\ pc = "awaiting"
    /\ \E response \in Responses :
        /\ pc' = "done"
        /\ inv' = [inv EXCEPT !.response = response]
        /\ IF ~ResponseOk(response.status)
           THEN /\ log' = log \o <<"notion.response_error">>
                /\ outcome' = Thrown(ResponseError(response.status,
                                                   response.body))
           ELSE /\ log' = log \o <<"notion.response_success">>
                /\ outcome' = Completed(inv.kind)
        /\ UNCHANGED <<env, clock, calls, sent, probe>>

\* The runtime starts the next invocation: nothing but the configuration
\* is shared between invocations.
NextInvocation ==
    /\ pc = "done"
    /\ pc' = "idle"
    /\ inv' = NoInvocation
    /\ calls' = <<>>
    /\ log' = <<>>
    /\ outcome' = NoOutcome
    /\ sent' = <<>>
    /\ UNCHANGED <<env, clock, probe>>

\* The create-call of the invocation has failed with a server error, and
\* the runtime delivers its message a second time (the same event, request
\* and configuration, at a later reading of the clock): the handler runs
\* again as far as it ran before, up to logEventShape.
Redeliver ==
    /\ pc = "done"
    /\ calls # <<>>
    /\ sent = <<>>
    /\ inv.response.status >= 500
    /\ sent' = sent \o <<calls[1].fingerprint>>
    /\ Parsed(Started(inv.kind, inv.mail, inv.rawFallback, inv.messageFrom,
                      inv.http),
              IF inv.kind = "email" THEN "email.received"
              ELSE "http.received")

\* Time passes between invocations.
Tick ==
    /\ pc = "idle"
    /\ clock < MaxClock
    /\ clock' = clock + 1
    /\ UNCHANGED <<env, pc, inv, calls, log, outcome, sent, probe>>

Init ==
    /\ env \in Envs
    /\ clock = 0
    /\ pc = "idle"
    /\ inv = NoInvocation
    /\ calls = <<>>
    /\ log = <<>>
    /\ outcome = NoOutcome
    /\ sent = <<>>
    /\ probe = NoProbe

Next ==
    \/ Email
    \/ Fetch
    \/ Deliver
    \/ NotionResponds
    \/ NextInvocation
    \/ Redeliver
    \/ Tick

Spec == Init /\ [][Next]_vars

----------------------------------------------------------------------------
(* The exported pure functions, applied to inputs drawn from bounded sets *)

SubjectPieces == {
    <<"i", "n", "b", "o", "x">>, <<"I", "N", "B", "o", "x">>,
    <<"[">>, <<"]">>, <<":">>, <<"-">>, <<" ">>, <<"a">>}

Subjects == Built(SubjectPieces, MaxSubjectPieces)
\* The subjects given to buildTitle, each with every timestamp
TitleSubjects == Built(SubjectPieces, MaxSubjectPieces - 1)

HtmlPieces == {
    <<"<", "b", "r", "/", ">">>, <<"<", "/", "p", ">">>, <<"<", "p", ">">>,
    <<"&", "a", "m", "p", ";">>, <<"l", "t", ";">>,
    <<"a">>, <<" ">>, <<"<">>, <<">">>}

Htmls == Built(HtmlPieces, MaxHtmlPieces)

Timestamps ==
    {toISOString(t) : t \in 0..MaxClock} \cup {<<>>, <<"2", "0", "2", "4">>}

OptTexts == {Undefined, Def(<<>>), Def(<<" ", "\n">>), Def(<<" ", "a", " ">>)}
OptHtmls == {Undefined} \cup {Def(h) : h \in Htmls}
OptRaws == {Undefined, Def(<<"\n", " ">>), Def(<<"r", " ">>)}

FingerprintInputs ==
    [from    : {Undefined, Def(<<>>), Def(<<"a", "@", "x">>), Def(<<"a">>),
                Def(<<"a", "|">>)},
     subject : {Undefined, Def(<<>>), Def(<<"s">>), Def(<<"|", "s">>)},
     date    : {toISOString(t) : t \in 0..MaxClock},
     body    : {Undefined, Def(<<>>), Def(<<"b">>)}]

\* The texts and the limits (whole numbers of characters) of splitIntoChunks
ChunkTexts == Built({<<"a">>, <<" ">>, <<"b", "c">>}, MaxTextPieces)
ChunkLimits == 1..MaxChunkLimit

ApplySplitIntoChunks ==
    /\ probe = NoProbe
    /\ \E text \in ChunkTexts, limit \in ChunkLimits :
        probe' = [fn |-> "splitIntoChunks", args |-> <<text, limit>>,
                  out |-> splitIntoChunks(text, limit), n |-> 1,
                  prev |-> <<>>]
    /\ UNCHANGED handlerVars

ApplyNormalizeTitle ==
    /\ probe = NoProbe
    /\ \E s \in Subjects :
        probe' = [fn |-> "normalizeTitle", args |-> <<s>>,
                  out |-> normalizeTitle(s), n |-> 1,
                  prev |-> <<>>]
    /\ UNCHANGED handlerVars

\* normalizeTitle applied to its own result
ReapplyNormalizeTitle ==
    /\ probe.fn = "normalizeTitle"
    /\ probe.n = 1
    /\ probe' = [fn |-> "normalizeTitle", args |-> <<probe.out>>,
                 out |-> normalizeTitle(probe.out), n |-> 2,
                 prev |-> probe.args]
    /\ UNCHANGED handlerVars

ApplyBuildTitle ==
    /\ probe = NoProbe
    /\ \E s \in TitleSubjects, t \in Timestamps :
        probe' = [fn |-> "buildTitle", args |-> <<s, t>>,
                  out |-> <<buildTitle(s, t), titleField(s, t)>>, n |-> 1,
                  prev |-> <<>>]
    /\ UNCHANGED handlerVars

ApplyResolveMailText ==
    /\ probe = NoProbe
    /\ \E text \in OptTexts, html \in OptHtmls, raw \in OptRaws :
        probe' = [fn |-> "resolveMailText", args |-> <<text, html, raw>>,
                  out |-> resolveMailText(text, html, raw), n |-> 1,
                  prev |-> <<>>]
    /\ UNCHANGED handlerVars

ApplyBuildFingerprint ==
    /\ probe = NoProbe
    /\ \E input \in FingerprintInputs :
        probe' = [fn |-> "buildFingerprint", args |-> <<input>>,
                  out |-> buildFingerprint(input), n |-> 1,
                  prev |-> <<>>]
    /\ UNCHANGED handlerVars

\* buildFingerprint applied to two inputs, one after the other
ApplyBuildFingerprintTwice ==
    /\ probe = NoProbe
    /\ \E first \in FingerprintInputs, second \in FingerprintInputs :
        probe' = [fn |-> "buildFingerprint twice", args |-> <<first, second>>,
                  out |-> <<buildFingerprint(first), buildFingerprint(second)>>,
                  n |-> 1, prev |-> <<>>]
    /\ UNCHANGED handlerVars

InitPure ==
    /\ env = NoEnv
    /\ clock = 0
    /\ pc = "idle"
    /\ inv = NoInvocation
    /\ calls = <<>>
    /\ log = <<>>
    /\ outcome = NoOutcome
    /\ sent = <<>>
    /\ probe = NoProbe

NextPure ==
    \/ ApplyNormalizeTitle
    \/ ReapplyNormalizeTitle
    \/ ApplyBuildTitle
    \/ ApplyResolveMailText
    \/ ApplyBuildFingerprint
    \/ ApplySplitIntoChunks
    \/ ApplyBuildFingerprintTwice

SpecPure == InitPure /\ [][NextPure]_vars

----------------------------------------------------------------------------
(* Properties of the handlers (Spec) *)

Logged(entry) == \E k \in 1..Len(log) : log[k] = entry

\* The message reached handleNotionCreate.
Processed == inv.resolved.source # "none"

\* A sender was resolved and its lower-cased form is on the allowlist.
SenderAllowed ==
    LET sender == ResolveSender(inv.mail, inv.messageFrom)
    IN /\ sender.def
       /\ sender.val # <<>>
       /\ toLowerCase(sender.val) \in parseAllowlist(env.ALLOWED_FROM).set

\* w occurs in s, letter for letter.
Occurs(w, s) ==
    \E i \in 1..(Len(s) - Len(w) + 1) : SubSeq(s, i, i + Len(w) - 1) = w

\* C1: for every message handled by the email handler or the debug endpoint,
\* a create-call is attempted only if the raw subject contains the marker
\* "inbox", in any letter case and at any position.
C1_CallOnlyWithMarker ==
    calls # <<>> => HasMarker(OrElse(inv.mail.subject, <<>>))

\* C2: when ALLOWED_FROM yields a non-empty allowlist, a create-call is
\* attempted only if a sender was resolved and its lower-cased form is on the
\* list; a message that is processed without such a sender ends successfully
\* with no create-call and no error; when ALLOWED_FROM is absent or yields no
\* entry, no sender is rejected.
C2_Allowlist ==
    LET allowlist == parseAllowlist(env.ALLOWED_FROM)
    IN /\ allowlist.def /\ calls # <<>> => SenderAllowed
       /\ allowlist.def /\ pc = "done" /\ Processed /\ ~SenderAllowed
              => /\ outcome = Completed(inv.kind)
                 /\ calls = <<>>
                 /\ Logged("email.skipped_allowlist")
       /\ ~allowlist.def => ~Logged("email.skipped_allowlist")

\* An invocation under an allowlist has ended successfully without a
\* create-call, its resolved sender not being on the list.
C2_Witness ==
    /\ parseAllowlist(env.ALLOWED_FROM).def
    /\ pc = "done"
    /\ Processed
    /\ ResolveSender(inv.mail, inv.messageFrom).def
    /\ ~SenderAllowed
    /\ outcome = Returned
    /\ calls = <<>>

\* C3: an invocation attempts at most one create-call, and an invocation
\* whose configuration is valid and whose message passes the gates (the
\* marker in the subject, the allowlist) attempts exactly one.
C3_ExactlyOneCall ==
    /\ Len(calls) <= 1
    /\ pc = "done" /\ MissingEnv(env) = <<>> /\ Processed
           /\ HasMarker(OrElse(inv.mail.subject, <<>>))
           /\ (parseAllowlist(env.ALLOWED_FROM).def => SenderAllowed)
           => Len(calls) = 1

\* The error the claim C4 expects for a response of the model that is not
\* 2xx: the missing field named when the message of the parsed body says
\* `property ... does not exist`, the status cited otherwise.
C4_Expected(response) ==
    LET status == IF response.status = 404 THEN <<"4", "0", "4">>
                  ELSE <<"5", "0", "0">>
    IN IF response.body = JsonBody(Def(PropertyQuoted))
       THEN Error(MissingPrefix \o <<"R", "a", "w">>)
       ELSE IF response.body = JsonBody(Def(PropertyNamed))
       THEN Error(MissingPrefix \o <<"R", "a", "w", " ">>)
       ELSE Error(ApiErrorPrefix \o status)

\* C4: whenever the response of the create-call is not 2xx, the invocation
\* ends by raising an error and never reports success (no success log entry,
\* no 200 from the debug endpoint); the error names the missing field when
\* the message of the parsed body matches `property ... does not exist`, and
\* cites the status otherwise, also when the body is not JSON.
C4_NonOkRaises ==
    pc = "done" /\ inv.response.status # 0
        /\ ~(inv.response.status \in 200..299)
        => /\ outcome.kind = "thrown"
           /\ outcome.error = C4_Expected(inv.response)
           /\ ~Logged("notion.response_success")
           /\ Len(calls) = 1

\* A debug request has ended with the generic error on a 500 whose body is
\* not JSON.
C4_Witness ==
    /\ pc = "done"
    /\ inv.kind = "fetch"
    /\ inv.response = [status |-> 500, body |-> TextBody]
    /\ outcome.kind = "thrown"
    /\ Logged("notion.response_error")

RequiredEnv == {"NOTION_TOKEN", "INBOX_DB_ID", "WORKERS_BEARER_TOKEN"}

\* The required settings that are absent or empty.
AbsentEnv == {n \in RequiredEnv : ~env[n].def \/ env[n].val = <<>>}

\* C5: every invocation validates the configuration first: if a required
\* setting is absent or empty the invocation aborts with an error whose
\* message names every missing setting, and no other one, before the
\* message is parsed and before any create-call; if all are present,
\* validation does not abort.
C5_ConfigValidated ==
    pc # "idle" =>
        IF AbsentEnv # {}
        THEN /\ pc = "done"
             /\ outcome.kind = "thrown"
             /\ \A n \in RequiredEnv :
                    Occurs(EnvNames[n], outcome.error.message)
                        <=> n \in AbsentEnv
             /\ calls = <<>>
             /\ ~Processed
             /\ ~Logged("email.event_shape")
        ELSE ~Occurs(MissingEnvPrefix, outcome.error.message)

\* An invocation has aborted on a configuration that lacks two settings.
C5_Witness ==
    /\ pc = "done"
    /\ Cardinality(AbsentEnv) >= 2
    /\ outcome.kind = "thrown"
    /\ Occurs(MissingEnvPrefix, outcome.error.message)

\* The 4xx status the claim C6 gives a debug request, 0 when it gives none.
C6_Refusal ==
    LET http == inv.http
        bearer == <<"B", "e", "a", "r", "e", "r", " ">>
                      \o env.WORKERS_BEARER_TOKEN.val
    IN IF http.method # "POST" \/ http.pathname # "/debug/email" THEN 404
       ELSE IF http.authorization # Def(bearer) THEN 401
       ELSE IF http.payload \in {"invalid", "falsy", "scalar"} THEN 400
       ELSE 0

\* C6: under a valid configuration the debug endpoint answers 404 when the
\* method is not POST or the path is not /debug/email, else 401 when the
\* Authorization header is missing or is not exactly `Bearer <secret>`, else
\* 400 when the body is not a JSON object, each without a create-call, and
\* else 200 once processing completes.
C6_DebugResponses ==
    inv.kind = "fetch" /\ MissingEnv(env) = <<>> /\ pc \in {"awaiting", "done"}
        => IF C6_Refusal # 0
           THEN /\ pc = "done"
                /\ outcome = Responded(C6_Refusal)
                /\ calls = <<>>
           ELSE pc = "done"
                    => outcome = Responded(200) \/ outcome.kind = "thrown"

\* C12: in every create-call request the Raw preview holds at most 1800
\* characters and is a prefix of the resolved body, the Title holds at most
\* 200 characters, and the text of every content block, the leading sender
\* block included, holds at most 1500 characters.
C12_FieldCaps ==
    \A i \in 1..Len(calls) :
        /\ Len(calls[i].raw) <= 1800
        /\ calls[i].raw = SubSeq(inv.resolved.text, 1, Len(calls[i].raw))
        /\ Len(calls[i].title) <= 200
        /\ calls[i].children.def =>
               \A k \in 1..Len(calls[i].children.val) :
                   Len(calls[i].children.val[k]) <= 1500

\* C13: two invocations that process the same message under the same
\* configuration at two different times send the same Fingerprint in their
\* create-calls, whether the message carries a date field or not.
C13_SameFingerprint ==
    \A k \in 1..Len(sent) :
        calls # <<>> => calls[1].fingerprint = sent[k]

\* The blocks the claim C14 expects for a body and a resolved sender: the
\* sender block if there is a sender address, then the consecutive
\* 1500-character chunks of the body that are not all whitespace.
C14_Expected(body, sender) ==
    LET count == (Len(body) + 1499) \div 1500
        last(k) == IF 1500 * k < Len(body) THEN 1500 * k ELSE Len(body)
        chunks == [k \in 1..count |-> SubSeq(body, 1500 * (k - 1) + 1, last(k))]
        Visible(c) == \E j \in 1..Len(c) : ~IsWs(c[j])
    IN (IF sender.def /\ sender.val # <<>>
        THEN <<<<"F", "r", "o", "m", ":", " ">> \o sender.val>> ELSE <<>>)
           \o SelectSeq(chunks, Visible)

\* C14: the content blocks of a create-call are, in order, one block
\* "From: <sender>" if and only if a sender address was resolved, then the
\* consecutive 1500-character chunks of the full resolved body in order,
\* without exactly the chunks that are all whitespace; when there is no
\* block the request carries no children list.
C14_ContentBlocks ==
    \A i \in 1..Len(calls) :
        LET expected == C14_Expected(inv.resolved.text,
                                     ResolveSender(inv.mail, inv.messageFrom))
        IN IF expected = <<>> THEN ~calls[i].children.def
           ELSE calls[i].children = [def |-> TRUE, val |-> expected]

\* A create-call has been sent for a body of three chunks, longer than the
\* preview, whose second chunk is blank: a sender block and two chunks.
C14_Witness ==
    /\ calls # <<>>
    /\ Len(inv.resolved.text) > 2 * 1500
    /\ calls[1].children.def
    /\ Len(calls[1].children.val) = 3
    /\ Len(calls[1].children.val[2]) = 1500
    /\ Len(calls[1].children.val[3]) = Len(inv.resolved.text) - 2 * 1500

----------------------------------------------------------------------------
(* Properties of the pure functions (SpecPure) *)

\* x is present and has a character that is not whitespace.
HasNonWs(x) == x.def /\ \E i \in 1..Len(x.val) : ~IsWs(x.val[i])

\* C7: resolveMailText returns by first match: the trimmed text with source
\* `text` if text has a non-whitespace character; else the trimmed
\* htmlToText(html) with source `html` if html has one; else the trimmed
\* rawFallback with source `raw` if it has one; else the empty string with
\* source `empty`.
C7_FirstMatch ==
    probe.fn = "resolveMailText" =>
        LET text == probe.args[1]
            html == probe.args[2]
            rawFallback == probe.args[3]
        IN probe.out =
               IF HasNonWs(text)
               THEN [text |-> Trim(text.val), source |-> "text"]
               ELSE IF HasNonWs(html)
               THEN [text |-> Trim(htmlToText(html.val)), source |-> "html"]
               ELSE IF HasNonWs(rawFallback)
               THEN [text |-> Trim(rawFallback.val), source |-> "raw"]
               ELSE [text |-> <<>>, source |-> "empty"]

\* resolveMailText has answered from the text while the HTML and the raw
\* fallback are not blank either.
C7_Witness ==
    /\ probe.fn = "resolveMailText"
    /\ HasNonWs(probe.args[1])
    /\ HasNonWs(probe.args[2])
    /\ HasNonWs(probe.args[3])
    /\ probe.out = [text |-> <<"a">>, source |-> "text"]

\* C8: buildTitle returns a non-empty string: the normalized subject when
\* that is non-empty, otherwise "Inbox email " followed by the first 10
\* characters of the timestamp; the Title field made of it is non-empty.
C8_TitleNonEmpty ==
    probe.fn = "buildTitle" =>
        LET subject == probe.args[1]
            receivedAt == probe.args[2]
            first10 == SubSeq(receivedAt, 1,
                              IF Len(receivedAt) < 10 THEN Len(receivedAt)
                              ELSE 10)
        IN /\ probe.out[1] # <<>>
           /\ probe.out[1] =
                  IF normalizeTitle(subject) # <<>>
                  THEN normalizeTitle(subject)
                  ELSE <<"I", "n", "b", "o", "x", " ", "e", "m", "a", "i",
                         "l", " ">> \o first10
           /\ probe.out[2] # <<>>

\* buildTitle has fallen back to the placeholder for a subject that is
\* nothing but a marker prefix.
C8_Witness ==
    /\ probe.fn = "buildTitle"
    /\ probe.args[1] # <<>>
    /\ normalizeTitle(probe.args[1]) = <<>>
    /\ probe.out[1] = <<"I", "n", "b", "o", "x", " ", "e", "m", "a", "i", "l",
                        " ", "2", "0", "2", "4", "-", "0", "2", "-", "0", "1">>

\* C9 as stated: normalizeTitle is idempotent, for every subject s
\* normalizeTitle(normalizeTitle(s)) = normalizeTitle(s).
C9_Idempotent ==
    probe.fn = "normalizeTitle" /\ probe.n = 2 => probe.out = probe.args[1]

\* The number of occurrences of the marker token in s, in any letter case.
MarkerCount(s) == Cardinality({i \in 1..Len(s) : LitAt(s, i, Inbox)})

\* C9: normalizeTitle strips one leading marker prefix, so it is idempotent
\* on every subject in which the marker token occurs at most once:
\* normalizeTitle(normalizeTitle(s)) = normalizeTitle(s) for such s.
C9_IdempotentOnOneMarker ==
    probe.fn = "normalizeTitle" /\ probe.n = 2
        /\ MarkerCount(probe.prev[1]) <= 1
        => probe.out = probe.args[1]

\* normalizeTitle has been applied to its own result on a subject whose one
\* marker prefix the first application stripped.
C9_Witness ==
    /\ probe.fn = "normalizeTitle"
    /\ probe.n = 2
    /\ MarkerCount(probe.prev[1]) = 1
    /\ MarkerPrefixEnd(probe.prev[1]) # 0
    /\ probe.args[1] = <<"a">>
    /\ probe.out = <<"a">>

\* C10: the result of buildFingerprint is the SHA-256 hex digest of
\* from-or-empty | subject-or-empty | date | SHA-256 hex digest of
\* body-or-empty, a null sender counting as the empty string; the result is
\* a function of (from, subject, date, body) alone.
C10_FingerprintFormula ==
    probe.fn = "buildFingerprint" =>
        LET input == probe.args[1]
            orEmpty(x) == IF x.def THEN x.val ELSE <<>>
        IN probe.out =
               sha256Hex(orEmpty(input.from) \o <<"|">>
                             \o orEmpty(input.subject) \o <<"|">>
                             \o input.date \o <<"|">>
                             \o sha256Hex(orEmpty(input.body)))

\* buildFingerprint has been applied to an input without a sender.
C10_Witness ==
    /\ probe.fn = "buildFingerprint"
    /\ ~probe.args[1].from.def
    /\ probe.args[1].subject = Def(<<"s">>)
    /\ probe.out = buildFingerprint([probe.args[1] EXCEPT !.from = Def(<<>>)])

\* The concatenation of the strings of a sequence, in order.
RECURSIVE Flat(_)
Flat(ss) == IF ss = <<>> THEN <<>> ELSE Head(ss) \o Flat(Tail(ss))

\* C11: for every text and every limit N > 0, splitIntoChunks(text, N)
\* returns consecutive segments of the text in order whose concatenation is
\* the text; every chunk is non-empty, every chunk but the last has length
\* N and the last at most N; the empty text yields the empty sequence.
C11_Chunks ==
    probe.fn = "splitIntoChunks" =>
        LET text == probe.args[1]
            N == probe.args[2]
            chunks == probe.out
        IN /\ Flat(chunks) = text
           /\ \A i \in 1..Len(chunks) :
                  /\ chunks[i] # <<>>
                  /\ Len(chunks[i]) <= N
                  /\ i < Len(chunks) => Len(chunks[i]) = N
                  /\ chunks[i] = SubSeq(text, (i - 1) * N + 1,
                                        (i - 1) * N + Len(chunks[i]))
           /\ text = <<>> => chunks = <<>>

\* splitIntoChunks has returned two full chunks and a shorter last one.
C11_Witness ==
    /\ probe.fn = "splitIntoChunks"
    /\ probe.args[2] = 2
    /\ Len(probe.out) = 3
    /\ Len(probe.out[3]) = 1

\* C15 as stated: resolveMailText returns source `empty` if and only if the
\* returned text is empty; with source `text`, `html` or `raw` the text is
\* non-empty and has no leading or trailing whitespace.
C15_EmptyIffEmptySource ==
    probe.fn = "resolveMailText" =>
        LET text == probe.out.text
        IN /\ probe.out.source = "empty" <=> text = <<>>
           /\ probe.out.source # "empty" =>
                  /\ text # <<>>
                  /\ ~IsWs(text[1])
                  /\ ~IsWs(text[Len(text)])

\* C15: resolveMailText returns the empty text with source `empty`; with
\* source `text` or `raw` the text is non-empty; with source `html` the
\* text may be empty, namely when the HTML, not blank itself, converts to
\* nothing but whitespace; a non-empty returned text never has leading or
\* trailing whitespace.
C15_EmptySourceHasEmptyText ==
    probe.fn = "resolveMailText" =>
        LET text == probe.out.text
            html == probe.args[2]
        IN /\ probe.out.source = "empty" => text = <<>>
           /\ probe.out.source \in {"text", "raw"} => text # <<>>
           /\ probe.out.source = "html" /\ text = <<>> =>
                  /\ HasNonWs(html)
                  /\ \A j \in 1..Len(htmlToText(html.val)) :
                         IsWs(htmlToText(html.val)[j])
           /\ text # <<>> => ~IsWs(text[1]) /\ ~IsWs(text[Len(text)])

\* resolveMailText has answered with source `html` and the empty text, for
\* HTML that is markup alone.
C15_Witness ==
    /\ probe.fn = "resolveMailText"
    /\ probe.args[2] = Def(<<"<", "p", ">", "<", "/", "p", ">">>)
    /\ probe.out = [text |-> <<>>, source |-> "html"]

\* C16: the fingerprint material is an injective encoding: two inputs that
\* differ in from, subject or date (a null value counting as the empty
\* string) have different materials, hence, SHA-256 being taken as free of
\* collisions, different fingerprints.
C16_MaterialInjective ==
    probe.fn = "buildFingerprint twice" =>
        LET first == probe.args[1]
            second == probe.args[2]
            orEmpty(x) == IF x.def THEN x.val ELSE <<>>
        IN \/ orEmpty(first.from) # orEmpty(second.from)
           \/ orEmpty(first.subject) # orEmpty(second.subject)
           \/ first.date # second.date
           => probe.out[1] # probe.out[2]

====
